---- MODULE Spec2Model ----
(***************************************************************************)
(* Model of the App component of frontend/src/App.js: the data / error     *)
(* state, the validData filter, the fetchData request life cycle, the      *)
(* 500 ms debounce effect and the view-state handler.                      *)
(***************************************************************************)
EXTENDS Integers, Sequences, FiniteSets, TLC

(***************************************************************************)
(* Bounds of the model.                                                    *)
(***************************************************************************)
MaxLen == 2
MaxInFlight == 2
MaxIdLen == 16

(***************************************************************************)
(* Program constants.                                                      *)
(***************************************************************************)
XCO2_MIN == 380
XCO2_MAX == 420
DEBOUNCE_MS == 500
POSITION_LENGTH == 2
POLYGON_VERTICES == 4

\* Granularity of the model's clock: time advances in half debounce windows.
TickMs == DEBOUNCE_MS \div 2

(***************************************************************************)
(* JavaScript values, as far as the filter inspects them: undefined, a     *)
(* number, a truthy value that is neither a number nor an array (a         *)
(* string), and an array.                                                  *)
(***************************************************************************)
Undefined == [t |-> "undefined"]
Str == [t |-> "string"]
Num(n) == [t |-> "number", v |-> n]
Arr(s) == [t |-> "array", v |-> s]

Truthy(x) == x.t # "undefined"
IsArray(x) == x.t = "array"
IsNumber(x) == x.t = "number"

Vertex(i) == <<i, i>>
VertexList(n) == [i \in 1..n |-> Vertex(i)]

Null == "null"
Never == 0 - 1

INITIAL_VIEW_STATE == [longitude |-> 0, latitude |-> 0, zoom |-> 2]

VARIABLES
  data,              \* useState([]): the data array of the last accepted response
  error,             \* useState(null): Null or the message of the last failure
  viewMode,          \* useState('point')
  isGlobeMode,       \* useState(false)
  startDate,         \* useState('')
  endDate,           \* useState('')
  landCoverVisible,  \* useState(false)
  tempStartDate,     \* useState('')
  tempEndDate,       \* useState('')
  viewState,         \* useState(INITIAL_VIEW_STATE); also the deck's viewport
  deck,              \* deckRef.current?.deck with a viewport available
  timers,            \* ms left on each pending setTimeout of the debounce effect, oldest first
  inflight,          \* the fetchData calls awaiting their response, in issue order
  vsAge,             \* history: ms since handleViewStateChange last issued a request
  lastOutcome,       \* history: how the most recently settled fetchData call ended
  dataFrom,          \* history: view_mode of the request whose response is held in data
  mounted,           \* the App component is mounted
  quiet,             \* history: a call failed or brought no data, and nothing changed since
  fetched,           \* history: the urls whose response has been stored in data
  depAge,            \* history: ms since the debounce effect last ran
  pendingChange,     \* history: a request parameter changed and no request carried it yet
  issuedCount,       \* history: the number of requests issued
  pendingNo,         \* history: the issue numbers of the calls in inflight
  dataNo,            \* history: the issue number of the request whose response is in data
  currentBaseMap,    \* 'Satellite', 'Light' or 'Dark'
  showLabels,        \* the Show Labels checkbox
  landCoverOpacity,  \* the opacity slider, in hundredths
  isSidebarOpen      \* the sidebar is shown

vars == <<data, error, viewMode, isGlobeMode, startDate, endDate, landCoverVisible,
          tempStartDate, tempEndDate, viewState, deck, timers, inflight, vsAge,
          lastOutcome, dataFrom, mounted, quiet, fetched, depAge, pendingChange,
          issuedCount, pendingNo, dataNo, currentBaseMap, showLabels, landCoverOpacity,
          isSidebarOpen>>

\* The history variables that a specification tracks only where a property reads them.
aux == <<quiet, fetched, depAge, pendingChange, issuedCount, pendingNo, dataNo>>

\* The controls of the sidebar that neither fetchData nor the debounce effect reads.
chrome == <<currentBaseMap, showLabels, landCoverOpacity, isSidebarOpen>>

ui == <<viewMode, isGlobeMode, startDate, endDate, landCoverVisible,
        tempStartDate, tempEndDate>>

(***************************************************************************)
(* validData (App.js 57-82).                                               *)
(***************************************************************************)
\* Faulty variants of the point-mode branch: no upper limit; vertices required
\* as in polygon mode; any position length; an open value range.
IsValidPointNoUpperLimit(d) ==
  /\ Truthy(d.position)
  /\ IsArray(d.position)
  /\ Len(d.position.v) = POSITION_LENGTH
  /\ IsNumber(d.xco2)
  /\ d.xco2.v >= XCO2_MIN

IsValidPointNeedsVertices(d) ==
  /\ Truthy(d.position)
  /\ IsArray(d.position)
  /\ Len(d.position.v) = POSITION_LENGTH
  /\ Truthy(d.vertices)
  /\ IsArray(d.vertices)
  /\ Len(d.vertices.v) = POLYGON_VERTICES
  /\ IsNumber(d.xco2)
  /\ d.xco2.v >= XCO2_MIN
  /\ d.xco2.v <= XCO2_MAX

IsValidPointAnyPosition(d) ==
  /\ Truthy(d.position)
  /\ IsArray(d.position)
  /\ IsNumber(d.xco2)
  /\ d.xco2.v >= XCO2_MIN
  /\ d.xco2.v <= XCO2_MAX

IsValidPointOpenRange(d) ==
  /\ Truthy(d.position)
  /\ IsArray(d.position)
  /\ Len(d.position.v) = POSITION_LENGTH
  /\ IsNumber(d.xco2)
  /\ d.xco2.v > XCO2_MIN
  /\ d.xco2.v < XCO2_MAX

\* The point-mode branch of the filter callback (App.js 61-68).
IsValidPoint(d) ==
  /\ Truthy(d.position)
  /\ IsArray(d.position)
  /\ Len(d.position.v) = POSITION_LENGTH
  /\ IsNumber(d.xco2)
  /\ d.xco2.v >= XCO2_MIN
  /\ d.xco2.v <= XCO2_MAX

\* Faulty variant of the polygon-mode branch: a vertices array of any length passes.
IsValidPolygonAnyVertices(d) ==
  /\ Truthy(d.position)
  /\ IsArray(d.position)
  /\ Len(d.position.v) = POSITION_LENGTH
  /\ Truthy(d.vertices)
  /\ IsArray(d.vertices)
  /\ IsNumber(d.xco2)
  /\ d.xco2.v >= XCO2_MIN
  /\ d.xco2.v <= XCO2_MAX

\* The polygon-mode branch of the filter callback (App.js 69-80).
IsValidPolygon(d) ==
  /\ Truthy(d.position)
  /\ IsArray(d.position)
  /\ Len(d.position.v) = POSITION_LENGTH
  /\ Truthy(d.vertices)
  /\ IsArray(d.vertices)
  /\ Len(d.vertices.v) = POLYGON_VERTICES
  /\ IsNumber(d.xco2)
  /\ d.xco2.v >= XCO2_MIN
  /\ d.xco2.v <= XCO2_MAX

\* The filter callback d => ... (App.js 60-81).
FilterPredicate(d, mode) ==
  IF mode = "point" THEN IsValidPoint(d) ELSE IsValidPolygon(d)

\* Array.prototype.filter: the elements that pass, in their original order.
RECURSIVE Filter(_, _)
Filter(s, mode) ==
  IF s = <<>> THEN <<>>
  ELSE IF FilterPredicate(Head(s), mode)
       THEN <<Head(s)>> \o Filter(Tail(s), mode)
       ELSE Filter(Tail(s), mode)

\* The useMemo body (App.js 57-82).
ValidData(d, mode) ==
  IF Len(d) = 0 THEN <<>> ELSE Filter(d, mode)

validData == ValidData(data, viewMode)

(***************************************************************************)
(* layers (App.js 204-306): the ids of the deck.gl layers and the feature  *)
(* array handed to the feature layer.                                      *)
(***************************************************************************)
\* Faulty variant of getPointRadius: zoom 3 falls in the middle band.
GetPointRadiusStrict(zoom) ==
  IF zoom < 3 THEN 100000 ELSE IF zoom <= 5 THEN 75000 ELSE 50000

\* getPointRadius (App.js 161-165), in metres.
GetPointRadius(zoom) ==
  IF zoom <= 3 THEN 100000 ELSE IF zoom <= 5 THEN 75000 ELSE 50000

(***************************************************************************)
(* parseSoundingDate and getTooltip (App.js 352-383).  A sounding id is a  *)
(* JavaScript number, held as its decimal digits because it has more       *)
(* digits than the integers of the model, or a string, held as its         *)
(* characters; a string is a sequence of one-character strings.            *)
(***************************************************************************)
JsNull == [t |-> "null"]
JsString(chars) == [t |-> "string", chars |-> chars]
JsNumber(digits) == [t |-> "number", digits |-> digits]

DigitChars == <<"0", "1", "2", "3", "4", "5", "6", "7", "8", "9">>

\* !sounding_id (App.js 353): undefined, null, 0 and '' are falsy.
Falsy(x) ==
  \/ x.t \in {"undefined", "null"}
  \/ x.t = "number" /\ x.digits = <<0>>
  \/ x.t = "string" /\ x.chars = <<>>

\* sounding_id.toString() (App.js 355).
IdToString(x) ==
  IF x.t = "number" THEN [i \in DOMAIN x.digits |-> DigitChars[x.digits[i] + 1]]
  ELSE x.chars

\* str.slice(from, to), for 0 <= from <= to <= str.length.
Slice(str, from, to) == SubSeq(str, from + 1, to)

\* Faulty variant of parseSoundingDate: the day is put before the month.
ParseSoundingDateDayFirst(sounding_id) ==
  IF Falsy(sounding_id) THEN JsNull
  ELSE LET str == IdToString(sounding_id)
       IN  IF Len(str) < 14 THEN JsNull
           ELSE JsString(Slice(str, 0, 4) \o <<"-">> \o Slice(str, 6, 8) \o <<"-">>
                         \o Slice(str, 4, 6) \o <<" ">> \o Slice(str, 8, 10) \o <<":">>
                         \o Slice(str, 10, 12) \o <<":">> \o Slice(str, 12, 14))

\* parseSoundingDate (App.js 352-366).
ParseSoundingDate(sounding_id) ==
  IF Falsy(sounding_id) THEN JsNull
  ELSE LET str == IdToString(sounding_id)
       IN  IF Len(str) < 14 THEN JsNull
           ELSE JsString(Slice(str, 0, 4) \o <<"-">> \o Slice(str, 4, 6) \o <<"-">>
                         \o Slice(str, 6, 8) \o <<" ">> \o Slice(str, 8, 10) \o <<":">>
                         \o Slice(str, 10, 12) \o <<":">> \o Slice(str, 12, 14))

\* object.sounding_id: undefined when the record has no such property.
SoundingIdOf(object) ==
  IF "sounding_id" \in DOMAIN object THEN object.sounding_id ELSE Undefined

\* getTooltip for a hovered object (App.js 369-383): the lines of the html.
GetTooltip(object) ==
  LET date == ParseSoundingDate(SoundingIdOf(object))
  IN  <<[label |-> "XCO2"], [label |-> "Location"]>>
      \o (IF ~Falsy(date) THEN <<[label |-> "Date", text |-> date.chars]>> ELSE <<>>)

(***************************************************************************)
(* createTrajectories (App.js 168-195).                                    *)
(***************************************************************************)
Abs(x) == IF x < 0 THEN 0 - x ELSE x

\* a.time || a.position[0] (App.js 174).
SortKey(d) ==
  IF "time" \in DOMAIN d /\ d.time # 0 THEN d.time ELSE d.position.v[1]

\* Array.prototype.sort with the comparator of App.js 173-175: ascending in
\* SortKey, elements of equal key in their original order.
RECURSIVE InsertByKey(_, _)
InsertByKey(s, p) ==
  IF s = <<>> THEN <<p>>
  ELSE IF SortKey(Head(s)) <= SortKey(p)
       THEN <<Head(s)>> \o InsertByKey(Tail(s), p)
       ELSE <<p>> \o s

RECURSIVE SortPoints(_)
SortPoints(points) ==
  IF points = <<>> THEN <<>>
  ELSE InsertByKey(SortPoints(SubSeq(points, 1, Len(points) - 1)), points[Len(points)])

\* Faulty variant of the sort: the array is sorted in place.
PointsAfterSortInPlace(points) == SortPoints(points)

\* The array passed to createTrajectories, after the call: the sort works on the
\* copy [...points] (App.js 173).
PointsAfterCall(points) == points

\* Faulty variant of the gap test: the latitude is not looked at.
BigGapInLongitudeOnly(point, nextPoint) ==
  Abs(nextPoint.position.v[1] - point.position.v[1]) > 1

\* The gap test of App.js 184-185.
BigGap(point, nextPoint) ==
  \/ Abs(nextPoint.position.v[1] - point.position.v[1]) > 1
  \/ Abs(nextPoint.position.v[2] - point.position.v[2]) > 1

\* The for loop (App.js 177-192) from index i on.
RECURSIVE TrajectoryLoop(_, _, _, _)
TrajectoryLoop(sortedPoints, i, currentLine, trajectories) ==
  IF i > Len(sortedPoints) THEN trajectories
  ELSE LET line == Append(currentLine, sortedPoints[i])
       IN  IF i = Len(sortedPoints) \/ BigGap(sortedPoints[i], sortedPoints[i + 1])
           THEN TrajectoryLoop(sortedPoints, i + 1, <<>>,
                               IF Len(line) > 1 THEN Append(trajectories, line)
                               ELSE trajectories)
           ELSE TrajectoryLoop(sortedPoints, i + 1, line, trajectories)

CreateTrajectories(points) == TrajectoryLoop(SortPoints(points), 1, <<>>, <<>>)

\* Faulty variant of layers: the trajectories are pushed before the test of data.
LayersTrajectoriesFirst(d, mode, globe, zoom) ==
  (IF globe THEN <<[id |-> "trajectories"]>> ELSE <<>>)
  \o (IF Len(d) = 0 THEN <<>>
      ELSE IF mode = "point"
      THEN <<[id |-> "points", data |-> ValidData(d, mode),
              getRadius |-> GetPointRadius(zoom)]>>
      ELSE <<[id |-> "grid-cells", data |-> ValidData(d, mode)]>>)

Layers(d, mode, globe, zoom) ==
  IF Len(d) = 0 THEN <<>>
  ELSE (IF globe
        THEN <<[id |-> "trajectories", data |-> CreateTrajectories(ValidData(d, mode))]>>
        ELSE <<>>)
       \o (IF mode = "point"
           THEN <<[id |-> "points", data |-> ValidData(d, mode),
                   getRadius |-> GetPointRadius(zoom)]>> ELSE <<>>)
       \o (IF mode = "polygon"
           THEN <<[id |-> "grid-cells", data |-> ValidData(d, mode)]>> ELSE <<>>)

layers == Layers(data, viewMode, isGlobeMode, viewState.zoom)

\* DataCount (App.js 385-395): {error && <div className="error-message">}.
ErrorShown == error # Null

(***************************************************************************)
(* The records a response may carry.  GoodRecord passes both branches of   *)
(* the filter; Records are the records that differ from it in at most one  *)
(* field, so that every conjunct of the filter is exercised on its own.    *)
(***************************************************************************)
Positions == {Undefined, Str, Arr(<<0>>), Arr(<<0, 0>>), Arr(<<0, 0, 0>>)}
Xco2s == {Undefined, Str, Num(XCO2_MIN - 1), Num(XCO2_MIN), Num(XCO2_MIN + 20),
          Num(XCO2_MAX), Num(XCO2_MAX + 1)}
VertexLists == {Undefined, Str, Arr(VertexList(POLYGON_VERTICES - 1)),
                Arr(VertexList(POLYGON_VERTICES)), Arr(VertexList(POLYGON_VERTICES + 1))}
QualityFlags == {0, 1}

Feature(p, x, v, q) == [position |-> p, xco2 |-> x, vertices |-> v, quality_flag |-> q]

GoodRecord ==
  Feature(Arr(<<0, 0>>), Num(XCO2_MIN + 20), Arr(VertexList(POLYGON_VERTICES)), 0)

Records ==
  {Feature(p, GoodRecord.xco2, GoodRecord.vertices, 0) : p \in Positions}
  \cup {Feature(GoodRecord.position, x, GoodRecord.vertices, 0) : x \in Xco2s}
  \cup {Feature(GoodRecord.position, GoodRecord.xco2, v, 0) : v \in VertexLists}
  \cup {Feature(GoodRecord.position, GoodRecord.xco2, GoodRecord.vertices, q) :
          q \in QualityFlags}

\* A few arrays for the specifications that explore the request life cycle:
\* empty, valid in both modes, valid in point mode only, and mixed.
PointOnlyRecord == Feature(GoodRecord.position, GoodRecord.xco2, Undefined, 0)

SampleBodies ==
  {<<>>, <<GoodRecord>>, <<PointOnlyRecord>>, <<GoodRecord, PointOnlyRecord>>}

\* The points of the trajectories: good records on a grid with longitudes 0, 1
\* and 3 and latitudes 0 and 2, so that neighbours are one degree apart or
\* more than one, and one good record that also has a time.
TrackPoints ==
  {Feature(Arr(<<lon, lat>>), GoodRecord.xco2, GoodRecord.vertices, 0) :
     lon \in {0, 1, 3}, lat \in {0, 2}}
  \cup {[time |-> 2] @@ GoodRecord}

\* The digits of two ids at every length: 1234567890123456..., whose date
\* fields all differ, and 2014090612345678..., a sounding of 6 September 2014.
CountingDigits(n) == [i \in 1..n |-> i % 10]
SoundingDigits(n) ==
  [i \in 1..n |-> <<2, 0, 1, 4, 0, 9, 0, 6, 1, 2, 3, 4, 5, 6, 7, 8>>[((i - 1) % 16) + 1]]

\* The sounding ids: numbers and strings of 1 to MaxIdLen digits, the number 0
\* and the empty string.
SoundingIds ==
  {JsNumber(<<0>>), JsString(<<>>)}
  \cup {JsNumber(CountingDigits(n)) : n \in 1..MaxIdLen}
  \cup {JsNumber(SoundingDigits(n)) : n \in 1..MaxIdLen}
  \cup {JsString(IdToString(JsNumber(SoundingDigits(n)))) : n \in 1..MaxIdLen}

\* Good records with each of the ids, and one without an id.
IdRecords == {GoodRecord} \cup {[sounding_id |-> id] @@ GoodRecord : id \in SoundingIds}

SeqsUpTo(S, n) == UNION {[1..k -> S] : k \in 0..n}

(***************************************************************************)
(* What a fetchData call can get back (App.js 123-140).                    *)
(*   rejected    fetch(url) rejects                                        *)
(*   unparsable  response.json() rejects: the body is not JSON             *)
(*   null        the body is the JSON value null                           *)
(*   nodata      a JSON value without a data key, status 200               *)
(*   servererror a JSON error body without a data key, status 5xx          *)
(*   data        a JSON object with a data array                           *)
(***************************************************************************)
Failures == {[kind |-> k] : k \in {"rejected", "unparsable", "null", "nodata", "servererror"}}

Responses(bodies) == Failures \cup {[kind |-> "data", data |-> b] : b \in bodies}

\* error.message of what the try block throws for a response, Null if it throws nothing.
Thrown(resp) ==
  CASE resp.kind = "rejected" -> "Failed to fetch"
    [] resp.kind = "unparsable" -> "Unexpected token < in JSON at position 0"
    [] resp.kind = "null" -> "Cannot read properties of null (reading 'data')"
    [] OTHER -> Null

(***************************************************************************)
(* Inputs of the user interface.                                           *)
(***************************************************************************)
ViewModes == {"point", "polygon"}
Dates == {"", "2020-01-01"}
MaxRequests == 4

MaxPoints == 4

MaxZoom == 8

\* The view states of one place at every whole zoom level up to MaxZoom.
ZoomStates == {[longitude |-> 0, latitude |-> 0, zoom |-> z] : z \in 0..MaxZoom}

\* Centres of the globe: the ends, the middle and both sides of each of the
\* values at which the bounds reach a pole or leave [-180, 180].
Longitudes == {0 - 180, 0 - 91, 0 - 90, 0, 90, 91, 180}
Latitudes == {0 - 90, 0 - 46, 0 - 45, 0, 45, 46, 90}
GlobeStates ==
  {[longitude |-> lon, latitude |-> lat, zoom |-> 2] : lon \in Longitudes, lat \in Latitudes}

ViewStates ==
  {INITIAL_VIEW_STATE,
   [longitude |-> 100, latitude |-> 60, zoom |-> 4],
   [longitude |-> 0 - 120, latitude |-> 0 - 80, zoom |-> 6]}

Max(a, b) == IF a >= b THEN a ELSE b
Min(a, b) == IF a <= b THEN a ELSE b

(***************************************************************************)
(* fetchData, up to the request (App.js 84-123).                           *)
(***************************************************************************)
\* viewport.getBounds() of deck.gl (App.js 100): [minLng, minLat, maxLng, maxLat],
\* here the square of 180 / 2^zoom degrees around the centre of the viewport.
GetBounds(viewport) ==
  LET half == 180 \div (2 ^ viewport.zoom)
  IN  <<viewport.longitude - half, viewport.latitude - half,
        viewport.longitude + half, viewport.latitude + half>>

\* Faulty variant of bounds: the globe branch sends the centre of the viewport only.
BoundsCentreOnly(viewport, globe) ==
  IF globe THEN <<viewport.longitude, viewport.latitude>> ELSE GetBounds(viewport)

\* Faulty variant of bounds: the latitudes of the globe branch are not clamped.
BoundsUnclamped(viewport, globe) ==
  IF globe
  THEN <<viewport.longitude - 90, viewport.latitude - 45,
         viewport.longitude + 90, viewport.latitude + 45>>
  ELSE GetBounds(viewport)

\* bounds (App.js 90-101).
Bounds(viewport, globe) ==
  IF globe
  THEN <<viewport.longitude - 90, Max(0 - 90, viewport.latitude - 45),
         viewport.longitude + 90, Min(90, viewport.latitude + 45)>>
  ELSE GetBounds(viewport)

\* The query parameters of the url (App.js 86-111), as a function of their names.
Url(hasViewport, viewport, globe, mode, start, end) ==
  IF ~hasViewport THEN [query |-> FALSE]
  ELSE [query |-> TRUE, bounds |-> Bounds(viewport, globe), zoom |-> viewport.zoom,
        view_mode |-> mode]
       @@ (IF start # "" THEN [start_date |-> start] ELSE [query |-> TRUE])
       @@ (IF end # "" THEN [end_date |-> end] ELSE [query |-> TRUE])

\* One pending fetchData call: the url it sent and the viewMode of its closure.
Request == [url |-> Url(deck, viewState, isGlobeMode, viewMode, startDate, endDate),
            viewMode |-> viewMode]

\* const response = await fetch(url) (App.js 123): the call is now pending.
Issue(req) ==
  /\ Len(inflight) < MaxInFlight
  /\ inflight' = Append(inflight, req)

(***************************************************************************)
(* The debounce effect (App.js 143-150): every change of one of its        *)
(* dependencies clears the pending timeout and sets a new one.             *)
(***************************************************************************)
RemoveAt(s, i) == [j \in 1..(Len(s) - 1) |-> IF j < i THEN s[j] ELSE s[j + 1]]

\* Faulty variant of the cleanup: the timeout is left pending.
ClearTimeoutForgotten(ts) == ts

\* return () => clearTimeout(timeoutId) (App.js 149): the timeout the effect set,
\* the last one, is cancelled if it is still pending.
ClearTimeout(ts) == IF ts = <<>> THEN <<>> ELSE SubSeq(ts, 1, Len(ts) - 1)

\* Faulty variant of the effect: the timeout is cancelled and none is set.
RestartTimerSetsNone == timers' = ClearTimeout(timers)

\* The effect runs again: the cleanup of its previous run, then setTimeout(..., 500).
RestartTimer == timers' = Append(ClearTimeout(timers), DEBOUNCE_MS)

Init ==
  /\ data = <<>>
  /\ error = Null
  /\ viewMode = "point"
  /\ isGlobeMode = FALSE
  /\ startDate = ""
  /\ endDate = ""
  /\ landCoverVisible = FALSE
  /\ tempStartDate = ""
  /\ tempEndDate = ""
  /\ viewState = INITIAL_VIEW_STATE
  /\ deck = FALSE
  /\ timers = <<DEBOUNCE_MS>>
  /\ inflight = <<>>
  /\ vsAge = Never
  /\ lastOutcome = "none"
  /\ dataFrom = "none"
  /\ mounted = TRUE
  /\ quiet = FALSE
  /\ fetched = {}
  /\ depAge = 0
  /\ pendingChange = FALSE
  /\ issuedCount = 0
  /\ pendingNo = <<>>
  /\ dataNo = 0
  /\ currentBaseMap = "Satellite"
  /\ showLabels = FALSE
  /\ landCoverOpacity = 50
  /\ isSidebarOpen = TRUE

\* The DeckGL component has created its deck and the deck has a viewport.
DeckReady ==
  /\ ~deck
  /\ deck' = TRUE
  /\ UNCHANGED <<data, error, ui, viewState, timers, inflight, vsAge, lastOutcome, dataFrom>>

\* onChange of the view-mode radios (App.js 628, 638).
SetViewMode(m) ==
  /\ m # viewMode
  /\ viewMode' = m
  /\ RestartTimer
  /\ UNCHANGED <<data, error, isGlobeMode, startDate, endDate, landCoverVisible,
                 tempStartDate, tempEndDate, viewState, deck, inflight, vsAge,
                 lastOutcome, dataFrom>>

\* onChange of the Globe View checkbox (App.js 688).
SetIsGlobeMode(b) ==
  /\ b # isGlobeMode
  /\ isGlobeMode' = b
  /\ RestartTimer
  /\ UNCHANGED <<data, error, viewMode, startDate, endDate, landCoverVisible,
                 tempStartDate, tempEndDate, viewState, deck, inflight, vsAge,
                 lastOutcome, dataFrom>>

\* onChange of the land-cover radios (App.js 770, 780-783).
SetLandCoverVisible(b) ==
  /\ b # landCoverVisible
  /\ landCoverVisible' = b
  /\ RestartTimer
  /\ UNCHANGED <<data, error, viewMode, isGlobeMode, startDate, endDate,
                 tempStartDate, tempEndDate, viewState, deck, inflight, vsAge,
                 lastOutcome, dataFrom>>

\* Faulty variant of the Start Date input: it is bound to the applied date as well.
SetTempStartDateApplies(v) ==
  /\ v # tempStartDate
  /\ tempStartDate' = v
  /\ startDate' = v
  /\ IF v # startDate THEN RestartTimer ELSE UNCHANGED timers
  /\ UNCHANGED <<data, error, viewMode, isGlobeMode, endDate, landCoverVisible,
                 tempEndDate, viewState, deck, inflight, vsAge, lastOutcome, dataFrom>>

\* onChange of the Start Date input (App.js 729).
SetTempStartDate(v) ==
  /\ v # tempStartDate
  /\ tempStartDate' = v
  /\ UNCHANGED <<data, error, viewMode, isGlobeMode, startDate, endDate, landCoverVisible,
                 tempEndDate, viewState, deck, timers, inflight, vsAge, lastOutcome,
                 dataFrom>>

\* onChange of the End Date input (App.js 737).
SetTempEndDate(v) ==
  /\ v # tempEndDate
  /\ tempEndDate' = v
  /\ UNCHANGED <<data, error, viewMode, isGlobeMode, startDate, endDate, landCoverVisible,
                 tempStartDate, viewState, deck, timers, inflight, vsAge, lastOutcome,
                 dataFrom>>

\* onClick of the Apply label (App.js 750-753); the effect runs again only if
\* fetchData changed, that is if startDate or endDate changed.
ApplyDates ==
  /\ startDate' = tempStartDate
  /\ endDate' = tempEndDate
  /\ IF <<tempStartDate, tempEndDate>> # <<startDate, endDate>>
     THEN RestartTimer ELSE UNCHANGED timers
  /\ UNCHANGED <<data, error, viewMode, isGlobeMode, landCoverVisible, tempStartDate,
                 tempEndDate, viewState, deck, inflight, vsAge, lastOutcome, dataFrom>>

BaseMaps == {"Satellite", "Light", "Dark"}

\* The positions of the opacity slider that the model uses, in hundredths.
Opacities == {0, 50, 100}

\* Faulty variant of handleBaseMapChange: the debounce effect depends on the base map.
HandleBaseMapChangeRestarts(value) ==
  /\ value # currentBaseMap
  /\ currentBaseMap' = value
  /\ RestartTimer
  /\ UNCHANGED <<showLabels, landCoverOpacity, isSidebarOpen>>
  /\ UNCHANGED <<data, error, ui, viewState, deck, inflight, vsAge, lastOutcome, dataFrom>>

\* handleBaseMapChange (App.js 485-487), onChange of the base-map radios (658-678).
HandleBaseMapChange(value) ==
  /\ value # currentBaseMap
  /\ currentBaseMap' = value
  /\ UNCHANGED <<showLabels, landCoverOpacity, isSidebarOpen>>
  /\ UNCHANGED <<data, error, ui, viewState, deck, timers, inflight, vsAge, lastOutcome,
                 dataFrom>>

\* onChange of the Show Labels checkbox (App.js 701).
SetShowLabels(b) ==
  /\ b # showLabels
  /\ showLabels' = b
  /\ UNCHANGED <<currentBaseMap, landCoverOpacity, isSidebarOpen>>
  /\ UNCHANGED <<data, error, ui, viewState, deck, timers, inflight, vsAge, lastOutcome,
                 dataFrom>>

\* onChange of the opacity slider (App.js 798).
SetLandCoverOpacity(v) ==
  /\ v # landCoverOpacity
  /\ landCoverOpacity' = v
  /\ UNCHANGED <<currentBaseMap, showLabels, isSidebarOpen>>
  /\ UNCHANGED <<data, error, ui, viewState, deck, timers, inflight, vsAge, lastOutcome,
                 dataFrom>>

\* handleToggleSidebar (App.js 308-316).
HandleToggleSidebar ==
  /\ isSidebarOpen' = IF isSidebarOpen THEN FALSE ELSE TRUE
  /\ UNCHANGED <<currentBaseMap, showLabels, landCoverOpacity>>
  /\ UNCHANGED <<data, error, ui, viewState, deck, timers, inflight, vsAge, lastOutcome,
                 dataFrom>>

\* handleViewStateChange (App.js 152-157).
HandleViewStateChange(vs) ==
  /\ vs # viewState
  /\ viewState' = vs
  /\ IF deck
     THEN /\ Issue([url |-> Url(deck, vs, isGlobeMode, viewMode, startDate, endDate),
                    viewMode |-> viewMode])
          /\ vsAge' = 0
     ELSE UNCHANGED <<inflight, vsAge>>
  /\ UNCHANGED <<data, error, ui, deck, timers, lastOutcome, dataFrom>>

\* Faulty variant of the callback: a setInterval, which is due again 500 ms later.
TimerFireRearms ==
  /\ \E k \in DOMAIN timers :
       timers[k] = 0 /\ timers' = [timers EXCEPT ![k] = DEBOUNCE_MS]
  /\ Issue(Request)
  /\ UNCHANGED <<data, error, ui, viewState, deck, vsAge, lastOutcome, dataFrom>>

\* The setTimeout callback of the debounce effect (App.js 145-147).
TimerFire ==
  /\ \E k \in DOMAIN timers : timers[k] = 0 /\ timers' = RemoveAt(timers, k)
  /\ Issue(Request)
  /\ UNCHANGED <<data, error, ui, viewState, deck, vsAge, lastOutcome, dataFrom>>

\* TickMs pass; a timeout that is due runs before more time passes.
Tick ==
  /\ \A k \in DOMAIN timers : timers[k] # 0
  /\ timers' = [k \in DOMAIN timers |-> timers[k] - TickMs]
  /\ vsAge' = IF vsAge = Never THEN Never ELSE Min(vsAge + TickMs, DEBOUNCE_MS)
  /\ UNCHANGED <<data, error, ui, viewState, deck, inflight, lastOutcome, dataFrom>>

\* The App component is unmounted: React runs the cleanup of the effect.
Unmount ==
  /\ mounted
  /\ mounted' = FALSE
  /\ timers' = ClearTimeout(timers)
  /\ UNCHANGED <<data, error, ui, viewState, deck, inflight, vsAge, lastOutcome, dataFrom>>

(***************************************************************************)
(* fetchData, from the response on (App.js 123-140).                       *)
(***************************************************************************)
\* Faulty variant of the catch block: the failure also clears the data.
CatchErrorClearsData(msg) ==
  /\ error' = msg
  /\ data' = <<>>
  /\ UNCHANGED dataFrom

\* catch (error) { setError(error.message) } (App.js 137-140).
CatchError(msg) ==
  /\ error' = msg
  /\ UNCHANGED <<data, dataFrom>>

\* Faulty variant of the early return: a response without data empties the data.
NoDataPropertyEmptiesData ==
  /\ data' = <<>>
  /\ UNCHANGED <<error, dataFrom>>

\* if (!result.data) { ...; return; } (App.js 126-129).
NoDataProperty ==
  UNCHANGED <<data, error, dataFrom>>

\* Faulty variant of setData: the response is appended to the data already held.
SetDataMerges(body, mode) ==
  /\ data' = data \o body
  /\ dataFrom' = mode
  /\ UNCHANGED error

\* Faulty variant of setData: a response with data also clears the error.
SetDataClearsError(body, mode) ==
  /\ data' = body
  /\ dataFrom' = mode
  /\ error' = Null

\* setData(result.data) (App.js 136).
SetData(body, mode) ==
  /\ data' = body
  /\ dataFrom' = mode
  /\ UNCHANGED error

\* The i-th pending fetchData call gets resp and runs to its end.
Settle(i, resp) ==
  /\ i \in DOMAIN inflight
  /\ inflight' = RemoveAt(inflight, i)
  /\ lastOutcome' = resp.kind
  /\ IF Thrown(resp) # Null THEN CatchError(Thrown(resp))
     ELSE IF resp.kind # "data" THEN NoDataProperty
     ELSE SetData(resp.data, inflight[i].viewMode)
  /\ UNCHANGED <<ui, viewState, deck, timers, vsAge>>

Bodies == SeqsUpTo(Records, MaxLen)

\* The sidebar controls.
UserAction ==
  \/ \E m \in ViewModes : SetViewMode(m)
  \/ \E b \in BOOLEAN : SetIsGlobeMode(b)
  \/ \E b \in BOOLEAN : SetLandCoverVisible(b)
  \/ \E v \in Dates : SetTempStartDate(v)
  \/ \E v \in Dates : SetTempEndDate(v)
  \/ ApplyDates

\* The whole component.  Its state space is the product of every control with
\* every request in flight; the specifications after it each explore a part.
\* The controls that only change how the map looks.
ChromeAction ==
  \/ \E value \in BaseMaps : HandleBaseMapChange(value)
  \/ \E b \in BOOLEAN : SetShowLabels(b)
  \/ \E v \in Opacities : SetLandCoverOpacity(v)
  \/ HandleToggleSidebar

Next ==
  \/ /\ \/ DeckReady
        \/ UserAction
        \/ \E vs \in ViewStates : HandleViewStateChange(vs)
        \/ TimerFire
        \/ Tick
        \/ \E i \in 1..MaxInFlight, resp \in Responses(SampleBodies) : Settle(i, resp)
     /\ UNCHANGED <<chrome, mounted, aux>>
  \/ ChromeAction /\ UNCHANGED <<mounted, aux>>
  \/ Unmount /\ UNCHANGED <<chrome, aux>>

Spec == Init /\ [][Next]_vars

(***************************************************************************)
(* The filter under every kind of record: one request at a time, issued by *)
(* a view-state change.  The first array loaded is any array of Records;   *)
(* a loaded array is replaced by one of SampleRecords, and any request may *)
(* be rejected.                                                            *)
(***************************************************************************)
NextFilter ==
  /\ \/ DeckReady
     \/ \E m \in ViewModes : SetViewMode(m)
     \/ inflight = <<>> /\ \E vs \in ViewStates : HandleViewStateChange(vs)
     \/ data = <<>> /\ inflight # <<>>
           /\ \E b \in Bodies : Settle(1, [kind |-> "data", data |-> b])
     \/ \E b \in SampleBodies : Settle(1, [kind |-> "data", data |-> b])
     \/ Settle(1, [kind |-> "rejected"])
  /\ UNCHANGED <<chrome, mounted, aux>>

SpecFilter == Init /\ [][NextFilter]_vars

(***************************************************************************)
(* The request life cycle under every kind of response.                    *)
(***************************************************************************)
NextFetch ==
  /\ \/ DeckReady
     \/ \E m \in ViewModes : SetViewMode(m)
     \/ \E vs \in ViewStates : HandleViewStateChange(vs)
     \/ \E i \in 1..MaxInFlight, resp \in Responses(SampleBodies) : Settle(i, resp)
  /\ UNCHANGED <<chrome, mounted, aux>>

SpecFetch == Init /\ [][NextFetch]_vars

(***************************************************************************)
(* The timing of the requests: the debounce timers and the view-state       *)
(* changes on the model's clock.                                           *)
(***************************************************************************)
NextTiming ==
  /\ \/ DeckReady
     \/ \E vs \in ViewStates : HandleViewStateChange(vs)
     \/ TimerFire
     \/ Tick
     \/ \E m \in ViewModes : SetViewMode(m)
     \/ \E i \in 1..MaxInFlight, resp \in Responses({<<>>}) : Settle(i, resp)
  /\ UNCHANGED <<chrome, mounted, aux>>

SpecTiming == Init /\ [][NextTiming]_vars

(***************************************************************************)
(* Vocabulary of the properties.                                           *)
(***************************************************************************)
Range(s) == {s[i] : i \in DOMAIN s}

\* The features handed to the 'points' / 'grid-cells' layer.
LayerFeatures(id) ==
  UNION {Range(layers[i].data) : i \in {j \in DOMAIN layers : layers[j].id = id}}

HasPosition(r) == r.position.t = "array" /\ Len(r.position.v) = 2
HasValue(r) == r.xco2.t = "number"
ValueInRange(r) == HasValue(r) /\ 380 <= r.xco2.v /\ r.xco2.v <= 420
HasFourVertices(r) == r.vertices.t = "array" /\ Len(r.vertices.v) = 4

\* The validity predicate of a view mode, in the words of the specification.
MeetsMode(r, mode) ==
  /\ HasPosition(r)
  /\ ValueInRange(r)
  /\ (mode = "polygon" => HasFourVertices(r))

\* v is d with some elements left out, the others in their order.
IsOrderedSubseq(v, d) ==
  \E idx \in [DOMAIN v -> DOMAIN d] :
    /\ \A a, b \in DOMAIN v : a < b => idx[a] < idx[b]
    /\ \A a \in DOMAIN v : v[a] = d[idx[a]]

\* This step is a fetchData call running to its end on a response of one of kinds.
Settled(kinds) == Len(inflight') < Len(inflight) /\ lastOutcome' \in kinds

(***************************************************************************)
(* C1: in every reachable state, in both view modes, every feature of      *)
(* validData, and so every feature handed to the points / grid-cells       *)
(* layer, has a numeric xco2 with 380 <= xco2 <= 420.                      *)
(***************************************************************************)
C1_ValueWithinRange ==
  /\ \A i \in DOMAIN validData :
       validData[i].xco2.t = "number"
       /\ 380 <= validData[i].xco2.v /\ validData[i].xco2.v <= 420
  /\ \A r \in LayerFeatures("points") \cup LayerFeatures("grid-cells") :
       r.xco2.t = "number" /\ 380 <= r.xco2.v /\ r.xco2.v <= 420

\* A response with an out-of-range value next to a valid record has been filtered.
C1_Witness ==
  /\ \E i \in DOMAIN data : HasValue(data[i]) /\ data[i].xco2.v > 420
  /\ validData # <<>>
  /\ Len(validData) < Len(data)

(***************************************************************************)
(* C2: whenever viewMode is 'polygon', every feature of validData and of   *)
(* the 'grid-cells' layer has a vertices array of exactly 4 entries, also  *)
(* when data holds the response to a request issued in 'point' mode.       *)
(***************************************************************************)
C2_PolygonHasFourVertices ==
  viewMode = "polygon" =>
    /\ \A i \in DOMAIN validData :
         validData[i].vertices.t = "array" /\ Len(validData[i].vertices.v) = 4
    /\ \A r \in LayerFeatures("grid-cells") :
         r.vertices.t = "array" /\ Len(r.vertices.v) = 4

\* Polygon mode showing the response to a point-mode request, one of whose
\* records has an array of vertices of another length.
C2_Witness ==
  /\ viewMode = "polygon"
  /\ dataFrom = "point"
  /\ validData # <<>>
  /\ \E i \in DOMAIN data :
       data[i].vertices.t = "array" /\ Len(data[i].vertices.v) # 4

(***************************************************************************)
(* C3: for the same data array, a record that is valid but for its         *)
(* vertices (not an array of exactly 4) is in the point-mode validData and *)
(* not in the polygon-mode validData, and the polygon-mode validData is a  *)
(* subset (an ordered subsequence) of the point-mode validData.            *)
(***************************************************************************)
C3_PolygonSubsetOfPoint ==
  LET pt == ValidData(data, "point")
      pg == ValidData(data, "polygon")
  IN /\ Range(pg) \subseteq Range(pt)
     /\ IsOrderedSubseq(pg, pt)
     /\ \A i \in DOMAIN data :
          (HasPosition(data[i]) /\ ValueInRange(data[i]) /\ ~HasFourVertices(data[i]))
            => (data[i] \in Range(pt) /\ data[i] \notin Range(pg))

\* data holds a record with 3 vertices and one with 4.
C3_Witness ==
  /\ \E i \in DOMAIN data :
       data[i].vertices.t = "array" /\ Len(data[i].vertices.v) = 3
  /\ ValidData(data, "polygon") # <<>>
  /\ Len(ValidData(data, "polygon")) < Len(ValidData(data, "point"))

(***************************************************************************)
(* C4: a record whose quality flag is not 0 is never in the filtered       *)
(* output that is rendered, in point mode and in polygon mode.             *)
(***************************************************************************)
C4_NoPoorQuality ==
  /\ \A i \in DOMAIN validData : validData[i].quality_flag = 0
  /\ \A r \in LayerFeatures("points") \cup LayerFeatures("grid-cells") :
       r.quality_flag = 0

(***************************************************************************)
(* C5: a record with a missing or non-numeric xco2, or with a position     *)
(* that is absent or not an array of exactly 2 entries, is dropped from    *)
(* validData in both view modes, and silently: the response that carries   *)
(* it leaves error as it was and its valid records are kept.               *)
(***************************************************************************)
C5_MalformedDroppedSilently ==
  [][Settled({"data"}) =>
       /\ error' = error
       /\ \A i \in DOMAIN data' : \A m \in ViewModes :
            /\ (~HasValue(data'[i]) \/ ~HasPosition(data'[i]))
                 => data'[i] \notin Range(ValidData(data', m))
            /\ MeetsMode(data'[i], m) => data'[i] \in Range(ValidData(data', m))]_vars

\* The last response carried a malformed record and a valid one, and no error shows.
C5_Witness ==
  /\ lastOutcome = "data"
  /\ \E i \in DOMAIN data : ~HasValue(data[i]) \/ ~HasPosition(data[i])
  /\ validData # <<>>
  /\ error = Null

(***************************************************************************)
(* C6: validData is data with some records left out and the others in      *)
(* their order, it holds exactly the records that meet the mode's validity *)
(* predicate, the value range being closed at 380 and at 420, and          *)
(* filtering it again in the same mode returns it unchanged.               *)
(***************************************************************************)
C6_ExactOrderedClosedRange ==
  /\ IsOrderedSubseq(validData, data)
  /\ Len(validData) = Cardinality({i \in DOMAIN data : MeetsMode(data[i], viewMode)})
  /\ \A i \in DOMAIN validData : MeetsMode(validData[i], viewMode)
  /\ \A i \in DOMAIN data :
       (HasPosition(data[i]) /\ HasFourVertices(data[i])
        /\ HasValue(data[i]) /\ data[i].xco2.v \in {380, 420})
         => data[i] \in Range(validData)
  /\ ValidData(validData, viewMode) = validData

\* Both ends of the range are kept, in the order of the response.
C6_Witness ==
  /\ Len(validData) = 2
  /\ validData[1].xco2.v = 420
  /\ validData[2].xco2.v = 380

(***************************************************************************)
(* C7: when the request of fetchData fails (fetch rejects, or the body is  *)
(* not JSON), the failure is caught, error is set to the failure message   *)
(* so that the error indicator shows, and data, validData and the layers   *)
(* are left exactly as they were before.                                   *)
(***************************************************************************)
C7_FailureKeepsData ==
  [][Settled({"rejected", "unparsable"}) =>
       /\ error' = (IF lastOutcome' = "rejected"
                    THEN "Failed to fetch"
                    ELSE "Unexpected token < in JSON at position 0")
       /\ ErrorShown'
       /\ data' = data
       /\ validData' = validData
       /\ layers' = layers]_vars

\* A request has just failed while features were on screen.
C7_Witness ==
  /\ lastOutcome \in {"rejected", "unparsable"}
  /\ ErrorShown
  /\ validData # <<>>
  /\ layers # <<>>

(***************************************************************************)
(* C8, as stated: a response that parses as JSON and has no data key       *)
(* raises no error, and the feature set displayed after it is empty.       *)
(***************************************************************************)
C8_NoDataKeyShowsNothing ==
  [][Settled({"nodata"}) =>
       /\ error' = error
       /\ validData' = <<>>
       /\ layers' = <<>>]_vars

(***************************************************************************)
(* C8, amended: a response that parses as a JSON object and has no data    *)
(* key raises no error (error is left as it was), and data, validData and  *)
(* the layers are left as they were before it: the display is empty        *)
(* afterwards only if it was empty before.                                 *)
(***************************************************************************)
C8_NoDataKeyChangesNothing ==
  [][Settled({"nodata"}) =>
       /\ error' = error
       /\ data' = data
       /\ validData' = validData
       /\ layers' = layers]_vars

\* A response without a data key has just been handled with features on screen.
C8_Witness ==
  /\ lastOutcome = "nodata"
  /\ validData # <<>>
  /\ ~ErrorShown

(***************************************************************************)
(* C9: when the backend answers with a server error (a JSON error body     *)
(* without a data array), an error message is displayed and the data       *)
(* loaded before stays on screen.                                          *)
(***************************************************************************)
C9_ServerErrorDisplayed ==
  [][Settled({"servererror"}) =>
       /\ ErrorShown'
       /\ data' = data
       /\ layers' = layers]_vars

(***************************************************************************)
(* C10: viewport-driven fetching is debounced: view-state changes that     *)
(* fall within one 500 ms window issue one request between them, so a      *)
(* view-state change issues no request less than 500 ms after the request  *)
(* of an earlier view-state change.                                        *)
(***************************************************************************)
C10_ViewportRequestsDebounced ==
  [][(viewState' # viewState /\ Len(inflight') > Len(inflight))
       => (vsAge = Never \/ vsAge >= 500)]_vars

\* C14: data starts as the empty array, and it changes only in a step that
\* delivers one response with a data array to one pending call; after the step
\* data is that whole array, whatever it held before.
C14_DataIsOneWholeResponse ==
  /\ data = <<>>
  /\ [][data' # data =>
          \E i \in DOMAIN inflight, b \in SampleBodies :
            /\ Settle(i, [kind |-> "data", data |-> b])
            /\ data' = b]_vars

\* Two records were delivered by one response and are held together.
C14_Witness ==
  /\ data = <<GoodRecord, PointOnlyRecord>>
  /\ lastOutcome = "data"

(***************************************************************************)
(* Requests after a failure.  quiet holds from the end of a call that      *)
(* failed or brought no data until the next change of the view state or of *)
(* a dependency of the debounce effect.                                    *)
(***************************************************************************)
EffectDeps == <<isGlobeMode, viewMode, startDate, endDate, landCoverVisible>>

FailedOrNoData ==
  \/ Settled({"rejected", "unparsable", "null", "nodata", "servererror"})
  \/ Settled({"data"}) /\ data' = <<>>

RequestSent == Len(inflight') > Len(inflight)

Changed == viewState' # viewState \/ EffectDeps' # EffectDeps

TrackQuiet ==
  quiet' = IF FailedOrNoData THEN TRUE ELSE IF Changed THEN FALSE ELSE quiet

RetryResponses ==
  {[kind |-> "rejected"], [kind |-> "nodata"], [kind |-> "data", data |-> <<>>]}

NextRetry ==
  /\ \/ DeckReady
     \/ \E vs \in ViewStates : HandleViewStateChange(vs)
     \/ \E b \in BOOLEAN : SetLandCoverVisible(b)
     \/ TimerFire
     \/ Tick
     \/ \E i \in 1..MaxInFlight, resp \in RetryResponses : Settle(i, resp)
  /\ TrackQuiet
  /\ UNCHANGED <<chrome, mounted, fetched, depAge, pendingChange, issuedCount, pendingNo, dataNo>>

SpecRetry == Init /\ [][NextRetry]_vars

\* C11, as stated: from the end of a call that failed or brought no data until
\* the next change of the view state or of isGlobeMode, viewMode, startDate,
\* endDate or landCoverVisible, no request is sent.
C11_NoRequestUntilChange ==
  [][(quiet /\ ~Changed) => ~RequestSent]_vars

\* C11, amended: the end of a call that failed or brought no data sends no
\* request and sets no timeout; until the next change, a request is sent only by
\* a debounce timeout that was pending already, which is then pending no more.
C11_NoRetryOfItsOwn ==
  [][/\ FailedOrNoData => (~RequestSent /\ timers' = timers)
     /\ (quiet /\ ~Changed /\ RequestSent) => Len(timers') < Len(timers)]_vars

\* A call has failed, nothing has changed since, no timeout is pending and a
\* request could be sent: none is.
C11_Witness ==
  /\ quiet
  /\ timers = <<>>
  /\ deck
  /\ inflight = <<>>
  /\ lastOutcome = "rejected"

(***************************************************************************)
(* The contents of the requests: every sidebar control that fetchData      *)
(* reads, the debounce timeout and the view-state changes; a call is       *)
(* answered before the next event.                                         *)
(***************************************************************************)
NextRequest ==
  /\ \/ DeckReady
     \/ inflight = <<>> /\ \E m \in ViewModes : SetViewMode(m)
     \/ inflight = <<>> /\ \E b \in BOOLEAN : SetIsGlobeMode(b)
     \/ inflight = <<>> /\ \E v \in Dates : SetTempStartDate(v)
     \/ inflight = <<>> /\ \E v \in Dates : SetTempEndDate(v)
     \/ inflight = <<>> /\ ApplyDates
     \/ inflight = <<>> /\ \E vs \in ViewStates : HandleViewStateChange(vs)
     \/ inflight = <<>> /\ TimerFire
     \/ inflight = <<>> /\ Tick
     \/ Settle(1, [kind |-> "data", data |-> <<>>])
  /\ UNCHANGED <<chrome, mounted, aux>>

SpecRequest == Init /\ [][NextRequest]_vars

IsFourNumbers(b) == b \in Seq(Int) /\ Len(b) = 4

\* The url of the request that the step sends.
SentUrl == inflight'[Len(inflight')].url

HasParam(url, name) == name \in DOMAIN url

\* C12: a request sent while the deck has a viewport carries bounds of four
\* numbers, the zoom of the viewport and view_mode equal to viewMode, which is
\* 'point' or 'polygon'; it carries start_date exactly when startDate is not
\* empty and end_date exactly when endDate is not empty, with these values.
\* A request sent without query parameters is sent while the deck has no viewport.
C12_RequestParameters ==
  [][RequestSent =>
       IF deck
       THEN /\ SentUrl.query
            /\ IsFourNumbers(SentUrl.bounds)
            /\ SentUrl.zoom = viewState'.zoom
            /\ SentUrl.view_mode = viewMode
            /\ viewMode \in {"point", "polygon"}
            /\ HasParam(SentUrl, "start_date") <=> startDate # ""
            /\ HasParam(SentUrl, "start_date") => SentUrl.start_date = startDate
            /\ HasParam(SentUrl, "end_date") <=> endDate # ""
            /\ HasParam(SentUrl, "end_date") => SentUrl.end_date = endDate
       ELSE SentUrl = [query |-> FALSE]]_vars

\* A request of the globe in polygon mode is pending, with a start date and
\* without an end date.
C12_Witness ==
  /\ deck /\ isGlobeMode /\ viewMode = "polygon"
  /\ startDate # "" /\ endDate = ""
  /\ inflight # <<>>
  /\ inflight[1].url.query
  /\ HasParam(inflight[1].url, "start_date")
  /\ ~HasParam(inflight[1].url, "end_date")

(***************************************************************************)
(* The radius of the points: the user zooms to any whole level while       *)
(* responses load the data.                                                *)
(***************************************************************************)
NextZoom ==
  /\ \/ DeckReady
     \/ \E m \in ViewModes : SetViewMode(m)
     \/ inflight = <<>> /\ \E vs \in ZoomStates : HandleViewStateChange(vs)
     \/ \E b \in SampleBodies : Settle(1, [kind |-> "data", data |-> b])
  /\ UNCHANGED <<chrome, mounted, aux>>

SpecZoom == Init /\ [][NextZoom]_vars

\* The value of getRadius of the points layer, if the layer is in the list.
PointRadii == {layers[i].getRadius : i \in {j \in DOMAIN layers : layers[j].id = "points"}}

\* C13: at the zoom level reached by any step the radius that getPointRadius
\* gives is 100000 m up to level 3, 75000 m at levels 4 and 5 and 50000 m from
\* level 6 on; it is the radius of the points layer; and a step that does not
\* lower the zoom level does not raise the radius.
C13_RadiusFollowsTable ==
  [][LET zoom == viewState'.zoom
         radius == GetPointRadius(zoom)
     IN  /\ zoom <= 3 => radius = 100000
         /\ zoom \in 4..5 => radius = 75000
         /\ zoom >= 6 => radius = 50000
         /\ zoom >= viewState.zoom => radius <= GetPointRadius(viewState.zoom)
         /\ PointRadii' \subseteq {radius}]_vars

\* The points are drawn at level 3 with the radius of the overview.
C13_Witness ==
  /\ viewState.zoom = 3
  /\ PointRadii = {100000}

(***************************************************************************)
(* Returning to a view.  fetched holds the urls whose response has been    *)
(* stored in data: what a cache of the viewed data would hold.             *)
(***************************************************************************)
NextCache ==
  /\ \/ DeckReady /\ UNCHANGED fetched
     \/ \E vs \in ViewStates : HandleViewStateChange(vs) /\ UNCHANGED fetched
     \/ \E i \in 1..MaxInFlight, b \in SampleBodies :
          /\ Settle(i, [kind |-> "data", data |-> b])
          /\ fetched' = fetched \cup {inflight[i].url}
  /\ UNCHANGED <<chrome, mounted, quiet, depAge, pendingChange, issuedCount, pendingNo, dataNo>>

SpecCache == Init /\ [][NextCache]_vars

\* C15: no request is sent for a viewport, view mode and dates whose data has
\* been received before: the url of every request sent is one that has not
\* been answered with data yet.
C15_ViewedDataNotRequestedAgain ==
  [][RequestSent => SentUrl \notin fetched]_vars

(***************************************************************************)
(* Grid cells and the zoom level.  The responses favour the property:     *)
(* a request made below zoom level 4 is answered with an empty array, so   *)
(* that records reach the client only for requests made at level 4 or      *)
(* above.                                                                  *)
(***************************************************************************)
NextGrid ==
  /\ \/ DeckReady
     \/ \E m \in ViewModes : SetViewMode(m)
     \/ \E vs \in ViewStates : HandleViewStateChange(vs)
     \/ \E i \in 1..MaxInFlight, b \in SampleBodies :
          /\ i \in DOMAIN inflight
          /\ b = <<>> \/ (inflight[i].url.query /\ inflight[i].url.zoom >= 4)
          /\ Settle(i, [kind |-> "data", data |-> b])
  /\ UNCHANGED <<chrome, mounted, aux>>

SpecGrid == Init /\ [][NextGrid]_vars

\* C16: in polygon view mode with viewState.zoom below 4, the grid-cells layer
\* draws no polygon.
C16_NoGridCellsBelowZoom4 ==
  (viewMode = "polygon" /\ viewState.zoom < 4) => LayerFeatures("grid-cells") = {}

(***************************************************************************)
(* The layer list under every combination of view mode, globe mode, zoom   *)
(* level and loaded data.                                                  *)
(***************************************************************************)
NextLayers ==
  /\ \/ DeckReady
     \/ \E m \in ViewModes : SetViewMode(m)
     \/ \E b \in BOOLEAN : SetIsGlobeMode(b)
     \/ inflight = <<>> /\ \E vs \in ViewStates : HandleViewStateChange(vs)
     \/ \E b \in SampleBodies : Settle(1, [kind |-> "data", data |-> b])
  /\ UNCHANGED <<chrome, mounted, aux>>

SpecLayers == Init /\ [][NextLayers]_vars

LayerIds == {layers[i].id : i \in DOMAIN layers}

\* The number of layers in the list that have the id.
LayerCount(id) == Cardinality({i \in DOMAIN layers : layers[i].id = id})

\* C17: the list of layers is the one that layers computes from data, viewMode
\* and isGlobeMode at any zoom level.  It is empty when data is empty, in globe
\* mode too.  When data is not empty it has one layer 'points' and no
\* 'grid-cells' in point mode, one layer 'grid-cells' and no 'points' in
\* polygon mode, one layer 'trajectories' in globe mode and none otherwise,
\* and no other layer.
C17_LayerListByModes ==
  /\ \A vs \in ViewStates :
       LayerIds = {l.id : l \in Range(Layers(data, viewMode, isGlobeMode, vs.zoom))}
  /\ data = <<>> => layers = <<>>
  /\ data # <<>> =>
       /\ LayerCount("points") = (IF viewMode = "point" THEN 1 ELSE 0)
       /\ LayerCount("grid-cells") = (IF viewMode = "polygon" THEN 1 ELSE 0)
       /\ LayerCount("trajectories") = (IF isGlobeMode THEN 1 ELSE 0)
       /\ LayerIds \subseteq {"points", "grid-cells", "trajectories"}

\* The globe shows grid cells: two layers, the trajectories and the cells.
C17_Witness ==
  /\ isGlobeMode
  /\ viewMode = "polygon"
  /\ data # <<>>
  /\ Len(layers) = 2

(***************************************************************************)
(* The debounce effect on the model's clock, from mount to unmount, under  *)
(* changes of each of its dependencies.  depAge is the time since the      *)
(* effect last ran, at mount or after a change of a dependency.            *)
(***************************************************************************)
NextDebounce ==
  /\ \/ /\ mounted
        /\ \/ \E m \in ViewModes : SetViewMode(m)
           \/ \E b \in BOOLEAN : SetIsGlobeMode(b)
           \/ \E b \in BOOLEAN : SetLandCoverVisible(b)
           \/ \E v \in Dates : SetTempStartDate(v)
           \/ \E v \in Dates : SetTempEndDate(v)
           \/ ApplyDates
        /\ depAge' = IF EffectDeps' # EffectDeps THEN 0 ELSE depAge
        /\ UNCHANGED mounted
     \/ Unmount /\ UNCHANGED depAge
     \/ TimerFire /\ UNCHANGED <<mounted, depAge>>
     \/ Tick /\ depAge' = Min(depAge + TickMs, DEBOUNCE_MS) /\ UNCHANGED mounted
     \/ \E i \in 1..MaxInFlight :
          Settle(i, [kind |-> "data", data |-> <<>>]) /\ UNCHANGED <<mounted, depAge>>
  /\ UNCHANGED <<chrome, quiet, fetched, pendingChange, issuedCount, pendingNo, dataNo>>

SpecDebounce == Init /\ [][NextDebounce]_vars

\* A timeout of the effect runs its callback.
TimeoutRan == Len(timers') < Len(timers) /\ RequestSent

\* C18: at most one timeout of the debounce effect is pending; a change of
\* isGlobeMode, viewMode, startDate, endDate or landCoverVisible leaves exactly
\* one pending, with 500 ms to go; the callback of a timeout runs only while
\* the component is mounted and when 500 ms have passed since the effect last
\* ran; and after the unmount no timeout is pending.
C18_OneTimerRestartedByChanges ==
  /\ [](Len(timers) <= 1)
  /\ [](~mounted => timers = <<>>)
  /\ [][/\ EffectDeps' # EffectDeps => timers' = <<DEBOUNCE_MS>>
        /\ TimeoutRan => (mounted /\ depAge >= DEBOUNCE_MS)]_vars

\* The view mode was changed and, 500 ms later, the timeout has sent the request
\* that carries it.
C18_Witness ==
  /\ mounted
  /\ depAge = DEBOUNCE_MS
  /\ timers = <<>>
  /\ inflight # <<>>
  /\ inflight[Len(inflight)].viewMode = "polygon"

(***************************************************************************)
(* The request after the last change.  The controls are used once the deck *)
(* has its viewport, the component stays mounted, a response arrives       *)
(* before the next timeout is due, time passes and a due timeout runs.     *)
(* pendingChange holds from a change of a value that fetchData reads until *)
(* a request built from the values then current is sent.                   *)
(***************************************************************************)
FetchDeps == <<isGlobeMode, viewMode, startDate, endDate>>

\* The step sends the request that fetchData builds from the current values.
CurrentRequestSent == RequestSent /\ inflight'[Len(inflight')] = Request'

TrackPendingChange ==
  pendingChange' = IF FetchDeps' # FetchDeps THEN TRUE
                   ELSE IF CurrentRequestSent THEN FALSE
                   ELSE pendingChange

Live(A) ==
  /\ A
  /\ TrackPendingChange
  /\ UNCHANGED <<chrome, mounted, quiet, fetched, depAge, issuedCount, pendingNo, dataNo>>

LiveSettle == Live(Settle(1, [kind |-> "data", data |-> <<>>]))

NextLive ==
  \/ Live(DeckReady)
  \/ Live(deck /\ \E m \in ViewModes : SetViewMode(m))
  \/ Live(deck /\ \E b \in BOOLEAN : SetIsGlobeMode(b))
  \/ Live(deck /\ \E v \in Dates : SetTempStartDate(v))
  \/ Live(deck /\ \E v \in Dates : SetTempEndDate(v))
  \/ Live(deck /\ ApplyDates)
  \/ Live(inflight = <<>> /\ TimerFire)
  \/ Live(Tick)
  \/ LiveSettle

SpecLive ==
  /\ Init
  /\ [][NextLive]_vars
  /\ WF_vars(Live(DeckReady))
  /\ WF_vars(Live(Tick))
  /\ WF_vars(Live(inflight = <<>> /\ TimerFire))
  /\ WF_vars(LiveSettle)

NextRace ==
  /\ \/ DeckReady /\ UNCHANGED <<issuedCount, pendingNo, dataNo>>
     \/ /\ issuedCount < MaxRequests
        /\ \E vs \in ViewStates : HandleViewStateChange(vs)
        /\ IF RequestSent
           THEN /\ issuedCount' = issuedCount + 1
                /\ pendingNo' = Append(pendingNo, issuedCount + 1)
           ELSE UNCHANGED <<issuedCount, pendingNo>>
        /\ UNCHANGED dataNo
     \/ \E i \in 1..MaxInFlight, b \in SampleBodies :
          /\ Settle(i, [kind |-> "data", data |-> b])
          /\ pendingNo' = RemoveAt(pendingNo, i)
          /\ dataNo' = pendingNo[i]
          /\ UNCHANGED issuedCount
  /\ UNCHANGED <<chrome, mounted, quiet, fetched, depAge, pendingChange>>

SpecRace == Init /\ [][NextRace]_vars

\* C20: once every request sent has been answered, data holds the response to
\* the request sent last; and no response replaces the data of a request sent
\* after its own.
C20_LatestRequestWins ==
  /\ [](inflight = <<>> => dataNo = issuedCount)
  /\ [][dataNo' >= dataNo]_vars

(***************************************************************************)
(* Every control of the sidebar on the model's clock; a call is answered,  *)
(* with a record or with a failure, before the next event.                 *)
(***************************************************************************)
NextControls ==
  \/ /\ inflight = <<>>
     /\ \/ \E m \in ViewModes : SetViewMode(m)
        \/ \E b \in BOOLEAN : SetIsGlobeMode(b)
        \/ \E b \in BOOLEAN : SetLandCoverVisible(b)
        \/ \E v \in Dates : SetTempStartDate(v)
        \/ \E v \in Dates : SetTempEndDate(v)
        \/ ApplyDates
        \/ TimerFire
        \/ Tick
     /\ UNCHANGED <<chrome, mounted, aux>>
  \/ /\ inflight = <<>>
     /\ \/ \E value \in BaseMaps : HandleBaseMapChange(value)
        \/ \E b \in BOOLEAN : SetShowLabels(b)
        \/ \E v \in Opacities : SetLandCoverOpacity(v)
        \/ HandleToggleSidebar
     /\ UNCHANGED <<mounted, aux>>
  \/ /\ \/ Settle(1, [kind |-> "data", data |-> <<GoodRecord>>])
        \/ Settle(1, [kind |-> "rejected"])
     /\ UNCHANGED <<chrome, mounted, aux>>

SpecControls == Init /\ [][NextControls]_vars

TempDates == <<tempStartDate, tempEndDate>>

\* No timeout is set by the step: none is added and none has more time to go.
NoTimeoutSet ==
  /\ Len(timers') <= Len(timers)
  /\ \A k \in DOMAIN timers' : timers'[k] <= timers[k]

\* C21: a timeout of 500 ms is pending at mount; a step that changes
\* isGlobeMode, viewMode, startDate, endDate or landCoverVisible leaves one
\* pending with 500 ms to go; a step that changes none of the five sets no
\* timeout; and a step that changes the base map, the labels toggle, the opacity,
\* the sidebar or a temporary date also sends no request and leaves data, error
\* and the pending timeouts as they are.
C21_OnlyDependenciesSchedule ==
  /\ timers = <<DEBOUNCE_MS>>
  /\ [][/\ EffectDeps' # EffectDeps => timers' = <<DEBOUNCE_MS>>
        /\ EffectDeps' = EffectDeps => NoTimeoutSet
        /\ (chrome' # chrome \/ TempDates' # TempDates) =>
             /\ timers' = timers
             /\ inflight' = inflight
             /\ data' = data
             /\ error' = error]_vars

\* Data and an error are on screen, a timeout is half way, and each of the
\* controls that schedule nothing has been used.
C21_Witness ==
  /\ data # <<>> /\ error # Null
  /\ timers = <<TickMs>>
  /\ currentBaseMap = "Dark" /\ showLabels /\ landCoverOpacity = 100 /\ ~isSidebarOpen
  /\ tempStartDate # startDate /\ tempEndDate # endDate

(***************************************************************************)
(* The date inputs and Apply.                                              *)
(***************************************************************************)
AppliedDates == <<startDate, endDate>>

\* What a step that edits a date input leaves alone: everything but the two
\* temporary dates.
AllButTempDates ==
  <<data, error, viewMode, isGlobeMode, startDate, endDate, landCoverVisible, viewState,
    deck, timers, inflight>>

\* C22: a step that changes tempStartDate or tempEndDate changes nothing else,
\* so neither the applied dates nor the request that fetchData would build; a
\* step that changes startDate or endDate sets both from the temporary dates,
\* which it leaves alone; and a request sent with a viewport carries the applied
\* dates, whatever the inputs show.
C22_DatesAppliedTogether ==
  [][/\ TempDates' # TempDates =>
          (AllButTempDates' = AllButTempDates /\ Request' = Request)
     /\ AppliedDates' # AppliedDates =>
          (AppliedDates' = TempDates /\ TempDates' = TempDates)
     /\ (RequestSent /\ deck) =>
          /\ IF HasParam(SentUrl, "start_date")
             THEN startDate # "" /\ SentUrl.start_date = startDate
             ELSE startDate = ""
          /\ IF HasParam(SentUrl, "end_date")
             THEN endDate # "" /\ SentUrl.end_date = endDate
             ELSE endDate = ""]_vars

\* A request carries the applied start date and no end date while the inputs
\* show no start date and an end date.
C22_Witness ==
  /\ startDate # "" /\ tempStartDate = ""
  /\ endDate = "" /\ tempEndDate # ""
  /\ inflight # <<>>
  /\ inflight[1].url.query
  /\ HasParam(inflight[1].url, "start_date")
  /\ inflight[1].url.start_date = startDate
  /\ ~HasParam(inflight[1].url, "end_date")

\* C23: once error holds a message, every step leaves a message in it, so the
\* error message stays displayed; this includes the step in which a later
\* response with data replaces data.
C23_ErrorStaysSet ==
  [][error # Null => (error' # Null /\ ErrorShown')]_vars

\* A request failed, and a later response has replaced the data: the message is
\* still there.
C23_Witness ==
  /\ ErrorShown
  /\ lastOutcome = "data"
  /\ data # <<>>

(***************************************************************************)
(* The bounds requested for the globe: the view is centred on any of       *)
(* GlobeStates, in globe mode or not.                                      *)
(***************************************************************************)
NextGlobe ==
  /\ \/ DeckReady
     \/ \E b \in BOOLEAN : SetIsGlobeMode(b)
     \/ inflight = <<>> /\ \E vs \in GlobeStates : HandleViewStateChange(vs)
     \/ Settle(1, [kind |-> "data", data |-> <<>>])
  /\ UNCHANGED <<chrome, mounted, aux>>

SpecGlobe == Init /\ [][NextGlobe]_vars

\* C24: the bounds of a request sent in globe mode are lon - 90, the larger of
\* -90 and lat - 45, lon + 90 and the smaller of 90 and lat + 45, for the centre
\* (lon, lat) of the viewport.  With lat between -90 and 90 both latitudes are
\* between -90 and 90 and the first is not above the second; the two longitudes
\* are 180 apart; and with lon below -90 or above 90 one of them is outside
\* -180..180.
C24_GlobeBounds ==
  [][(RequestSent /\ deck /\ isGlobeMode) =>
       LET lon == viewState'.longitude
           lat == viewState'.latitude
           bounds == SentUrl.bounds
       IN  /\ bounds = <<lon - 90, Max(0 - 90, lat - 45), lon + 90, Min(90, lat + 45)>>
           /\ lat \in (0 - 90)..90 =>
                /\ bounds[2] \in (0 - 90)..90
                /\ bounds[4] \in (0 - 90)..90
                /\ bounds[2] <= bounds[4]
           /\ bounds[3] - bounds[1] = 180
           /\ (lon < 0 - 90 \/ lon > 90) => (bounds[1] < 0 - 180 \/ bounds[3] > 180)]_vars

\* The globe is centred on longitude 91 at the north pole: the request goes
\* past 180 degrees east and stops at the pole.
C24_Witness ==
  /\ isGlobeMode
  /\ viewState.longitude = 91 /\ viewState.latitude = 90
  /\ inflight # <<>>
  /\ inflight[1].url.query
  /\ inflight[1].url.bounds = <<1, 45, 181, 90>>

(***************************************************************************)
(* The trajectories of the globe: the first response brings any array of   *)
(* up to MaxPoints of TrackPoints, in any order.                           *)
(***************************************************************************)
TrackBodies == SeqsUpTo(TrackPoints, MaxPoints)

NextTrajectories ==
  /\ \/ DeckReady
     \/ \E b \in BOOLEAN : SetIsGlobeMode(b)
     \/ data = <<>> /\ inflight = <<>>
           /\ \E vs \in ViewStates : HandleViewStateChange(vs)
     \/ data = <<>> /\ inflight # <<>>
           /\ \E b \in TrackBodies : Settle(1, [kind |-> "data", data |-> b])
  /\ UNCHANGED <<chrome, mounted, aux>>

SpecTrajectories == Init /\ [][NextTrajectories]_vars

\* The number of places of the sequence that hold x.
Occurrences(s, x) == Cardinality({i \in DOMAIN s : s[i] = x})

RECURSIVE Flatten(_)
Flatten(ss) == IF ss = <<>> THEN <<>> ELSE Head(ss) \o Flatten(Tail(ss))

WithinOneDegree(p, q) ==
  /\ Abs(q.position.v[1] - p.position.v[1]) <= 1
  /\ Abs(q.position.v[2] - p.position.v[2]) <= 1

\* C25: for the valid points on screen, every trajectory that
\* createTrajectories returns has at least 2 points, its consecutive points
\* are at most 1 degree apart in longitude and in latitude, no point is in the
\* trajectories more often than in the input, and the input array is in the
\* same order after the call; the trajectories layer draws these trajectories.
C25_TrajectoriesWellFormed ==
  LET trajectories == CreateTrajectories(validData)
  IN  /\ \A t \in Range(trajectories) :
           /\ Len(t) >= 2
           /\ \A k \in 1..(Len(t) - 1) : WithinOneDegree(t[k], t[k + 1])
      /\ \A p \in Range(Flatten(trajectories)) :
           Occurrences(Flatten(trajectories), p) <= Occurrences(validData, p)
      /\ PointsAfterCall(validData) = validData
      /\ \A l \in Range(layers) : l.id = "trajectories" => l.data = trajectories

\* Four points arrived out of order and the globe draws them as two
\* trajectories of two points.
C25_Witness ==
  /\ isGlobeMode
  /\ Len(validData) = 4
  /\ SortPoints(validData) # validData
  /\ \E l \in Range(layers) :
       l.id = "trajectories" /\ Len(l.data) = 2 /\ Len(l.data[1]) = 2

(***************************************************************************)
(* The tooltip: a response brings a record with any of SoundingIds, or     *)
(* with none, and the record is drawn as a point or as a grid cell.        *)
(***************************************************************************)
NextTooltip ==
  /\ \/ DeckReady
     \/ \E m \in ViewModes : SetViewMode(m)
     \/ inflight = <<>> /\ \E vs \in ViewStates : HandleViewStateChange(vs)
     \/ inflight # <<>>
           /\ \E r \in IdRecords : Settle(1, [kind |-> "data", data |-> <<r>>])
  /\ UNCHANGED <<chrome, mounted, aux>>

SpecTooltip == Init /\ [][NextTooltip]_vars

\* The objects that the pointer can pick: the features of the two pickable layers.
Pickable == LayerFeatures("points") \cup LayerFeatures("grid-cells")

HasDateLine(tooltip) == \E i \in DOMAIN tooltip : tooltip[i].label = "Date"

\* C26: for every object on screen, parseSoundingDate of its sounding id is null
\* when the id is missing (or 0 or empty) or its string has fewer than 14
\* characters.  Otherwise it is the 19 characters YYYY-MM-DD hh:mm:ss made of
\* characters 1-4, 5-6, 7-8, 9-10, 11-12 and 13-14 of the string in this order,
\* the same as for the first 14 characters alone.  The tooltip of the object has
\* a Date line, with this text, exactly when the result is not null.
C26_DateFromFirst14Characters ==
  \A object \in Pickable :
    LET id == SoundingIdOf(object)
        date == ParseSoundingDate(id)
        tooltip == GetTooltip(object)
    IN  /\ IF Falsy(id) \/ Len(IdToString(id)) < 14
           THEN date = JsNull
           ELSE LET str == IdToString(id)
                IN  /\ date.t = "string"
                    /\ Len(date.chars) = 19
                    /\ SubSeq(date.chars, 1, 4) = SubSeq(str, 1, 4)
                    /\ date.chars[5] = "-"
                    /\ SubSeq(date.chars, 6, 7) = SubSeq(str, 5, 6)
                    /\ date.chars[8] = "-"
                    /\ SubSeq(date.chars, 9, 10) = SubSeq(str, 7, 8)
                    /\ date.chars[11] = " "
                    /\ SubSeq(date.chars, 12, 13) = SubSeq(str, 9, 10)
                    /\ date.chars[14] = ":"
                    /\ SubSeq(date.chars, 15, 16) = SubSeq(str, 11, 12)
                    /\ date.chars[17] = ":"
                    /\ SubSeq(date.chars, 18, 19) = SubSeq(str, 13, 14)
                    /\ date = ParseSoundingDate(JsString(SubSeq(str, 1, 14)))
        /\ HasDateLine(tooltip) <=> date # JsNull
        /\ \A i \in DOMAIN tooltip : tooltip[i].label = "Date" => tooltip[i].text = date.chars

\* The sounding 2014090612345678 is on screen and its tooltip shows
\* 2014-09-06 12:34:56.
C26_Witness ==
  \E object \in Pickable :
    /\ SoundingIdOf(object) = JsNumber(SoundingDigits(16))
    /\ GetTooltip(object)[3] =
         [label |-> "Date",
          text |-> <<"2", "0", "1", "4", "-", "0", "9", "-", "0", "6", " ",
                     "1", "2", ":", "3", "4", ":", "5", "6">>]

====
